---- MODULE Spec2Model ----
(***************************************************************************)
(* Response-orchestration state machine of the chat client:                *)
(*   src/App.tsx                   App (store, busy flag, handleSendMessage)*)
(*   src/services/geminiService.ts getClient, streamChatResponse,          *)
(*                                 generateImage, editImage, analyzeMedia, *)
(*                                 transcribeAudio                         *)
(*   src/unnamed/part_001          InputArea (handleSend, toggle bar),     *)
(*                                 ModeSelector                            *)
(*   src/unnamed/part_000          types                                   *)
(*                                                                         *)
(* Strings the code computes on (trim, toLowerCase, includes, +) are       *)
(* sequences of one-character strings.  An optional value (undefined or a  *)
(* value) is a sequence of length 0 or 1.  Message ids and timestamps are  *)
(* opaque and never read by the orchestration; they are left out.          *)
(***************************************************************************)
EXTENDS Integers, Sequences, FiniteSets, TLC

(* ------------------------------ bounds --------------------------------- *)
\* Number of request cycles the model can hold at once (slots).
MaxCycles == 2
\* Longest conversation store the model lets a submission grow.
MaxMsgs == 4
\* Longest chat stream (number of chunks) the backend emits.
MaxChunks == 2

(* ------------------------- string literals ----------------------------- *)
AudioUploaded == <<"A","u","d","i","o"," ","u","p","l","o","a","d","e","d">>
ImageUploaded == <<"I","m","a","g","e"," ","u","p","l","o","a","d","e","d">>
GeneratingText == <<"G","e","n","e","r","a","t","i","n","g"," ","h","i","g","h","-","q","u","a","l","i","t","y"," ","i","m","a","g","e",".",".",".">>
GeneratedCaption == <<"H","e","r","e"," ","i","s"," ","y","o","u","r"," ","g","e","n","e","r","a","t","e","d"," ","i","m","a","g","e",".">>
EditingText == <<"E","d","i","t","i","n","g"," ","i","m","a","g","e",".",".",".">>
EditedCaption == <<"H","e","r","e"," ","i","s"," ","y","o","u","r"," ","e","d","i","t","e","d"," ","i","m","a","g","e",".">>
AttachImageMsg == <<"P","l","e","a","s","e"," ","a","t","t","a","c","h"," ","a","n"," ","i","m","a","g","e"," ","t","o"," ","e","d","i","t",".">>
AttachMediaMsg == <<"P","l","e","a","s","e"," ","a","t","t","a","c","h"," ","m","e","d","i","a"," ","t","o"," ","a","n","a","l","y","z","e",".">>
AnalyzingText == <<"A","n","a","l","y","z","i","n","g"," ","c","o","n","t","e","n","t",".",".",".">>
AnalysisComplete == <<"A","n","a","l","y","s","i","s"," ","c","o","m","p","l","e","t","e",".">>
ErrorPrefix == <<"E","r","r","o","r",":"," ">>
SomethingWentWrong == <<"S","o","m","e","t","h","i","n","g"," ","w","e","n","t"," ","w","r","o","n","g",".">>
API_KEY_REQUIRED == <<"A","P","I","_","K","E","Y","_","R","E","Q","U","I","R","E","D">>
TranscribeWord == <<"t","r","a","n","s","c","r","i","b","e">>
TranscribePrompt == <<"T","r","a","n","s","c","r","i","b","e"," ","t","h","i","s"," ","a","u","d","i","o"," ","f","i","l","e",".">>
AnalyzePrompt == <<"A","n","a","l","y","z","e"," ","t","h","i","s"," ","c","o","n","t","e","n","t",".">>
\* What the engine reports for result.candidates[0].content on an empty
\* candidates array.
TypeErrorMsg == <<"C","a","n","n","o","t"," ","r","e","a","d"," ","p","r","o","p","e","r","t","i","e","s"," ","o","f"," ","u","n","d","e","f","i","n","e","d"," ","(","r","e","a","d","i","n","g"," ","'","c","o","n","t","e","n","t","'",")">>
UpperCase == <<"A","B","C","D","E","F","G","H","I","J","K","L","M","N","O","P","Q","R","S","T","U","V","W","X","Y","Z">>
LowerCase == <<"a","b","c","d","e","f","g","h","i","j","k","l","m","n","o","p","q","r","s","t","u","v","w","x","y","z">>
WhiteSpace == {" "}

(* --------------------------- optional values --------------------------- *)
None == <<>>
Some(v) == <<v>>

(* ------------------------- string operations --------------------------- *)
\* String.prototype.trim
RECURSIVE trim(_)
trim(s) ==
  IF s = <<>> THEN s
  ELSE IF Head(s) \in WhiteSpace THEN trim(Tail(s))
  ELSE IF s[Len(s)] \in WhiteSpace THEN trim(SubSeq(s, 1, Len(s) - 1))
  ELSE s

\* String.prototype.toLowerCase, on the letters A-Z
toLowerCase(s) ==
  [i \in 1..Len(s) |->
     IF \E k \in 1..Len(UpperCase) : UpperCase[k] = s[i]
     THEN LowerCase[CHOOSE k \in 1..Len(UpperCase) : UpperCase[k] = s[i]]
     ELSE s[i]]

\* String.prototype.includes
includes(s, sub) ==
  \E i \in 0..(Len(s) - Len(sub)) : SubSeq(s, i + 1, i + Len(sub)) = sub

(* ------------------------------ inputs --------------------------------- *)
TxtHi == <<"h","i">>
TxtBlank == <<" ">>
TxtTranscribe == <<"P","l","e","a","s","e"," ","T","R","A","N","S","C","R","I","B","E">>
\* What the user can have typed when pressing send.
Texts == {<<>>, TxtBlank, TxtHi, TxtTranscribe}

\* Attachment: only the coarse kind is read by the orchestration.
Img == [type |-> "image"]
Aud == [type |-> "audio"]
Vid == [type |-> "video"]
AttachmentLists == {<<>>, <<Img>>, <<Aud>>, <<Vid>>}
\* What a follow-up submission into a conversation under way is drawn from.
FollowUpTexts == {TxtHi}
FollowUpAttachmentLists == {<<>>, <<Img>>}

AppModes == {"chat", "generate_image", "edit_image", "analyze"}
ImageSizes == {"1K", "2K"}

\* Backend results.
QuotaMsg == <<"q","u","o","t","a">>
\* An Error thrown by the backend or the host: with a message, or without.
BackendErrors == {[message |-> QuotaMsg], [message |-> <<>>]}

SrcX == [uri |-> "https://x", title |-> "X"]
\* One element of the chat stream: content.text (possibly empty) and the
\* value of content.candidates?.[0]?.groundingMetadata?.groundingChunks?.map(..),
\* undefined or a list of sources.
SrcY == [uri |-> "https://y", title |-> "Y"]
Chunks ==
  {[text |-> <<"a">>, sources |-> None],
   [text |-> <<"b">>, sources |-> Some(<<SrcX>>)],
   [text |-> <<>>, sources |-> Some(<<SrcY>>)]}

Cap == <<"c","a","p">>
InlinePart == [inlineData |-> "IMG", text |-> <<>>]
TextPart == [inlineData |-> "", text |-> Cap]
EmptyPart == [inlineData |-> "", text |-> <<>>]
\* generateContent responses of the image operations: candidates undefined,
\* an empty candidates array, or one candidate with parts.
ImageResponses ==
  {[candidates |-> None], [candidates |-> Some(<<>>)]} \cup
  {[candidates |-> Some(<<[parts |-> p]>>)] :
     p \in {<<>>, <<InlinePart>>, <<TextPart>>, <<InlinePart, TextPart>>, <<EmptyPart>>}}

Ok == <<"o","k">>
\* generateContent responses of analysis and transcription: their text.
TextResponses == {[text |-> Ok], [text |-> <<>>]}

(* ------------------------------- state --------------------------------- *)
VARIABLES
  mode,        \* App: useState<AppMode>
  messages,    \* App: the conversation store
  isLoading,   \* App: the global busy flag
  chatConfig,  \* App: the three chat flags
  imageSize,   \* App: resolution tier of generate_image
  aistudio,    \* host: whether window.aistudio exists
  keySelected, \* host: what hasSelectedApiKey() answers
  cycles       \* one record per running or last-settled handleSendMessage call

vars == <<mode, messages, isLoading, chatConfig, imageSize, aistudio,
          keySelected, cycles>>

Cycles == 1..MaxCycles

NoFlags == [enableThinking |-> FALSE, enableSearch |-> FALSE, enableFast |-> FALSE]

\* A cycle: the position of one handleSendMessage call (pc), the values its
\* closure captured at submission, its locals, and a record of what it did:
\* the backend calls issued, the number of getClient calls (creds), of
\* those that threw API_KEY_REQUIRED (notGranted) and of openSelectKey calls
\* (prompts), how it settled, the stream elements it consumed, and whether a
\* mode switch cleared the store under it.
IdleCycle ==
  [pc |-> "idle", mode |-> "chat", text |-> <<>>, attachments |-> <<>>,
   config |-> NoFlags, size |-> "1K", fullText |-> <<>>, consumed |-> <<>>,
   calls |-> <<>>, creds |-> 0, notGranted |-> 0, prompts |-> 0,
   outcome |-> "none",
   error |-> None, cleared |-> FALSE]

InFlight(c) == cycles[c].pc \notin {"idle", "settled"}

(* ------------------- src/App.tsx: the message store -------------------- *)
\* Mutant: the message is put in front of the store.
addMessageInFront(prev, message) == <<message>> \o prev

\* setMessages((prev) => [...prev, message])
addMessage(prev, message) == Append(prev, message)

\* Mutant: with no model message at the end of the store, the update is
\* appended as a new model message.
updateLastMessageOrAppend(prev, text, isThinking, imageUrl, sources) ==
  IF Len(prev) > 0 /\ prev[Len(prev)].role = "model"
  THEN [prev EXCEPT ![Len(prev)] =
          [@ EXCEPT !.text = text,
                    !.isThinking = isThinking,
                    !.imageUrl = IF imageUrl # "" THEN imageUrl ELSE @,
                    !.sources = IF sources # None THEN sources ELSE @]]
  ELSE Append(prev, [role |-> "model", text |-> text, isThinking |-> isThinking,
                     imageUrl |-> imageUrl, sources |-> sources])

\* if (imageUrl) / if (sources): '' and undefined leave the field alone.
updateLastMessage(prev, text, isThinking, imageUrl, sources) ==
  IF Len(prev) > 0 /\ prev[Len(prev)].role = "model"
  THEN [prev EXCEPT ![Len(prev)] =
          [@ EXCEPT !.text = text,
                    !.isThinking = isThinking,
                    !.imageUrl = IF imageUrl # "" THEN imageUrl ELSE @,
                    !.sources = IF sources # None THEN sources ELSE @]]
  ELSE prev

\* text || (attachments.length ? (audio ? 'Audio uploaded' : 'Image uploaded') : '')
userText(text, attachments) ==
  IF text # <<>> THEN text
  ELSE IF Len(attachments) > 0
       THEN (IF attachments[1].type = "audio" THEN AudioUploaded ELSE ImageUploaded)
       ELSE <<>>

userMsg(text, attachments) ==
  [role |-> "user", text |-> userText(text, attachments), isThinking |-> FALSE,
   imageUrl |-> "", sources |-> None]

\* Mutant: the placeholder is always created in-progress.
placeholderAlwaysThinking(config) ==
  [role |-> "model", text |-> <<>>, isThinking |-> TRUE,
   imageUrl |-> "", sources |-> None]

\* The placeholder of the model response.
placeholderMsg(config) ==
  [role |-> "model", text |-> <<>>, isThinking |-> config.enableThinking,
   imageUrl |-> "", sources |-> None]

\* Mutant: messages that read "Error: ..." are left out of the history.
historyOfWithoutErrors(msgs) ==
  LET NoError(m) == ~( /\ Len(m.text) >= Len(ErrorPrefix)
                       /\ SubSeq(m.text, 1, Len(ErrorPrefix)) = ErrorPrefix )
      kept == SelectSeq(msgs, NoError)
  IN [i \in 1..Len(kept) |-> [role |-> kept[i].role, text |-> kept[i].text]]

\* messages.map(m => ({role, parts: [{text}]}))
historyOf(msgs) == [i \in 1..Len(msgs) |-> [role |-> msgs[i].role, text |-> msgs[i].text]]

\* Mutant: no fallback for an error without a message.
errorTextNoFallback(error) == ErrorPrefix \o error.message

\* `Error: ${error.message || "Something went wrong."}`
errorText(error) ==
  ErrorPrefix \o (IF error.message # <<>> THEN error.message ELSE SomethingWentWrong)

\* Mutant: the flag is cleared at the end of the try block only.
finallyIsLoadingOnSuccessOnly(outcome) == outcome = "error"

\* The value of isLoading once the finally block has run.
finallyIsLoading(outcome) == FALSE

(* --------------- src/services/geminiService.ts: routing ---------------- *)
ThinkingBudget == 32768

\* Mutant: enableThinking is tested before enableFast.
streamChatPlanThinkingFirst(config) ==
  IF config.enableThinking
  THEN [model |-> "gemini-3-pro-preview", thinkingConfig |-> Some(ThinkingBudget), tools |-> None]
  ELSE IF config.enableFast
  THEN [model |-> "gemini-flash-lite-latest", thinkingConfig |-> None, tools |-> None]
  ELSE IF config.enableSearch
  THEN [model |-> "gemini-2.5-flash", thinkingConfig |-> None, tools |-> Some("googleSearch")]
  ELSE [model |-> "gemini-3-pro-preview", thinkingConfig |-> None, tools |-> None]

\* Model and config of the chat call, by first match on the flags.
streamChatPlan(config) ==
  IF config.enableFast
  THEN [model |-> "gemini-flash-lite-latest", thinkingConfig |-> None, tools |-> None]
  ELSE IF config.enableThinking
  THEN [model |-> "gemini-3-pro-preview", thinkingConfig |-> Some(ThinkingBudget), tools |-> None]
  ELSE IF config.enableSearch
  THEN [model |-> "gemini-2.5-flash", thinkingConfig |-> None, tools |-> Some("googleSearch")]
  ELSE [model |-> "gemini-3-pro-preview", thinkingConfig |-> None, tools |-> None]

InlineDataPart(att) == [inlineData |-> Some(att), text |-> None]
TextDataPart(text) == [inlineData |-> None, text |-> Some(text)]

\* The backend call (chats.create + sendMessageStream) of streamChatResponse.
streamChatResponse(history, lastMessage, config, attachments) ==
  [op |-> "streamChatResponse",
   model |-> streamChatPlan(config).model,
   config |-> [thinkingConfig |-> streamChatPlan(config).thinkingConfig,
               tools |-> streamChatPlan(config).tools],
   history |-> history,
   parts |-> [i \in 1..Len(attachments) |-> InlineDataPart(attachments[i])]
             \o (IF lastMessage # <<>> THEN <<TextDataPart(lastMessage)>> ELSE <<>>)]

\* The generateContent call of generateImage: first attempt and retry.
generateImageCall(prompt, size) ==
  [op |-> "generateImage", model |-> "gemini-3-pro-image-preview",
   parts |-> <<TextDataPart(prompt)>>,
   config |-> [imageSize |-> size, aspectRatio |-> Some("1:1")]]

generateImageRetryCall(prompt, size) ==
  [op |-> "generateImage", model |-> "gemini-3-pro-image-preview",
   parts |-> <<TextDataPart(prompt)>>,
   config |-> [imageSize |-> size, aspectRatio |-> None]]

\* Mutant: the prompt is opened for any error of the first attempt.
needsGrantAnyError(e) == aistudio

\* generateImage's catch: the grant prompt is opened for this error.
needsGrant(e) == e.message = API_KEY_REQUIRED /\ aistudio

editImage(prompt, imageAttachment) ==
  [op |-> "editImage", model |-> "gemini-2.5-flash-image",
   parts |-> <<InlineDataPart(imageAttachment), TextDataPart(prompt)>>]

analyzeModel(attachment) ==
  IF attachment.type = "audio" THEN "gemini-2.5-flash" ELSE "gemini-3-pro-preview"

analyzeMedia(prompt, attachment) ==
  [op |-> "analyzeMedia", model |-> analyzeModel(attachment),
   parts |-> <<InlineDataPart(attachment),
               TextDataPart(IF prompt # <<>> THEN prompt ELSE AnalyzePrompt)>>]

transcribeAudio(audioAttachment) ==
  [op |-> "transcribeAudio", model |-> "gemini-2.5-flash",
   parts |-> <<InlineDataPart(audioAttachment), TextDataPart(TranscribePrompt)>>]

(* --------------- src/App.tsx: handleSendMessage's tests ---------------- *)
\* Mutant: the kind of the first attachment is not tested.
editPreconditionLengthOnly(attachments) == Len(attachments) = 0

\* attachments.length === 0 || attachments[0].type !== 'image'
editPreconditionFails(attachments) ==
  Len(attachments) = 0 \/ attachments[1].type # "image"

\* attachments.length === 0
analyzePreconditionFails(attachments) == Len(attachments) = 0

\* Mutant: the text is not lower-cased before the search.
isTranscriptionCaseSensitive(text, attachments) ==
  attachments[1].type = "audio" /\ includes(text, TranscribeWord)

\* attachments[0].type === 'audio' && text.toLowerCase().includes('transcribe')
isTranscription(text, attachments) ==
  attachments[1].type = "audio" /\ includes(toLowerCase(text), TranscribeWord)

\* Mutant: fullText = content.text
replaceChunk(fullText, content) == content.text

\* fullText += content.text
appendChunk(fullText, content) == fullText \o content.text

\* The loop over result.candidates[0].content.parts: imgUrl and caption.
RECURSIVE imgUrlOf(_, _)
imgUrlOf(parts, acc) ==
  IF parts = <<>> THEN acc
  ELSE imgUrlOf(Tail(parts),
                IF Head(parts).inlineData # ""
                THEN "data:image/png;base64," \o Head(parts).inlineData
                ELSE acc)

RECURSIVE captionOf(_, _)
captionOf(parts, acc) ==
  IF parts = <<>> THEN acc
  ELSE captionOf(Tail(parts),
                 IF Head(parts).inlineData = "" /\ Head(parts).text # <<>>
                 THEN Head(parts).text
                 ELSE acc)

\* caption || "Here is your generated image." / "Here is your edited image."
defaultCaption(m) == IF m = "generate_image" THEN GeneratedCaption ELSE EditedCaption

\* Mutant: the busy flag is not tested.
sendRejectedIgnoringBusy(text, attachments) ==
  trim(text) = <<>> /\ Len(attachments) = 0

\* (!text.trim() && attachments.length === 0) || isLoading
sendRejected(text, attachments) ==
  (trim(text) = <<>> /\ Len(attachments) = 0) \/ isLoading

(* ------------------------------ Init ----------------------------------- *)
\* The state after the first render.  The host is the environment: it may
\* lack window.aistudio; no key is selected yet.
Init ==
  /\ mode = "chat"
  /\ messages = <<>>
  /\ isLoading = FALSE
  /\ chatConfig = NoFlags
  /\ imageSize = "1K"
  /\ aistudio \in BOOLEAN
  /\ keySelected = FALSE
  /\ cycles = [c \in Cycles |-> IdleCycle]

(* --------------------- how a cycle's step ends ------------------------- *)
\* The step ends at an await: the cycle stays in flight.
Suspend(c, rec, msgs, loading) ==
  /\ messages' = msgs
  /\ isLoading' = loading
  /\ cycles' = [cycles EXCEPT ![c] = rec]

\* catch (error) { updateLastMessage(`Error: ...`, false) } finally { setIsLoading(false) }
SettleError(c, rec, msgs, error) ==
  /\ messages' = updateLastMessage(msgs, errorText(error), FALSE, "", None)
  /\ isLoading' = finallyIsLoading("error")
  /\ cycles' = [cycles EXCEPT ![c] =
                  [rec EXCEPT !.pc = "settled", !.outcome = "error",
                              !.error = Some(error)]]

\* The try block ran to its end: finally { setIsLoading(false) }
SettleSuccess(c, rec, msgs) ==
  /\ messages' = msgs
  /\ isLoading' = finallyIsLoading("success")
  /\ cycles' = [cycles EXCEPT ![c] =
                  [rec EXCEPT !.pc = "settled", !.outcome = "success"]]

(* ---------------- handleSendMessage up to its first await -------------- *)
handleSendMessage(c, text, attachments) ==
  LET m0  == addMessage(addMessage(messages, userMsg(text, attachments)),
                        placeholderMsg(chatConfig))
      rec == [IdleCycle EXCEPT !.mode = mode, !.text = text,
                               !.attachments = attachments,
                               !.config = chatConfig, !.size = imageSize]
  IN
  CASE mode = "chat" ->
         \* history is the store as rendered, before this submission
         Suspend(c, [rec EXCEPT !.pc = "stream_call", !.creds = 1,
                       !.calls = <<streamChatResponse(historyOf(messages), text,
                                                      chatConfig, attachments)>>],
                 m0, TRUE)
    [] mode = "generate_image" ->
         LET m1 == updateLastMessage(m0, GeneratingText, TRUE, "", None)
             e  == [message |-> API_KEY_REQUIRED]
         IN IF aistudio
            THEN \* getClient(true) awaits hasSelectedApiKey()
                 Suspend(c, [rec EXCEPT !.pc = "key1", !.creds = 1], m1, TRUE)
            ELSE \* getClient(true) throws; the catch finds no window.aistudio
                 SettleError(c, [rec EXCEPT !.creds = 1, !.notGranted = 1], m1, e)
    [] mode = "edit_image" ->
         IF editPreconditionFails(attachments)
         THEN SettleError(c, rec, m0, [message |-> AttachImageMsg])
         ELSE Suspend(c, [rec EXCEPT !.pc = "edit_call", !.creds = 1,
                            !.calls = <<editImage(text, attachments[1])>>],
                      updateLastMessage(m0, EditingText, TRUE, "", None), TRUE)
    [] mode = "analyze" ->
         IF analyzePreconditionFails(attachments)
         THEN SettleError(c, rec, m0, [message |-> AttachMediaMsg])
         ELSE Suspend(c, [rec EXCEPT !.pc = "analyze_call", !.creds = 1,
                            !.calls = <<IF isTranscription(text, attachments)
                                        THEN transcribeAudio(attachments[1])
                                        ELSE analyzeMedia(text, attachments[1])>>],
                      updateLastMessage(m0, AnalyzingText, TRUE, "", None), TRUE)

\* The slot a new cycle takes: the lowest one not in flight.
FreeSlots == {c \in Cycles : ~InFlight(c)}
FreeSlot == CHOOSE c \in FreeSlots : \A d \in FreeSlots : c <= d

\* InputArea.handleSend: the send button or the Enter key.
handleSend(text, attachments) ==
  IF sendRejected(text, attachments)
  THEN UNCHANGED vars
  ELSE /\ FreeSlots # {}
       /\ Len(messages) + 2 <= MaxMsgs
       /\ handleSendMessage(FreeSlot, text, attachments)
       /\ UNCHANGED <<mode, chatConfig, imageSize, aistudio, keySelected>>

(* ------------------- handleSendMessage after an await ------------------ *)
Others == <<mode, chatConfig, imageSize, aistudio>>

\* await streamChatResponse(...) resolves with the stream.
SendMessageStreamReturns(c) ==
  /\ cycles[c].pc = "stream_call"
  /\ Suspend(c, [cycles[c] EXCEPT !.pc = "streaming"], messages, isLoading)
  /\ UNCHANGED <<Others, keySelected>>

\* One iteration of for await (const chunk of result).
StreamNext(c, content) ==
  /\ cycles[c].pc = "streaming"
  /\ Len(cycles[c].consumed) < MaxChunks
  /\ LET fullText == IF content.text # <<>>
                     THEN appendChunk(cycles[c].fullText, content)
                     ELSE cycles[c].fullText
     IN Suspend(c, [cycles[c] EXCEPT !.fullText = fullText,
                                     !.consumed = Append(@, content)],
                IF content.text # <<>>
                THEN updateLastMessage(messages, fullText, FALSE, "", content.sources)
                ELSE messages,
                isLoading)
  /\ UNCHANGED <<Others, keySelected>>

\* The stream ends: the try block is done.
StreamDone(c) ==
  /\ cycles[c].pc = "streaming"
  /\ SettleSuccess(c, cycles[c], messages)
  /\ UNCHANGED <<Others, keySelected>>

\* The chat call, or the stream while it is consumed, throws.
StreamThrows(c, e) ==
  /\ cycles[c].pc \in {"stream_call", "streaming"}
  /\ SettleError(c, cycles[c], messages, e)
  /\ UNCHANGED <<Others, keySelected>>

\* generateImage's catch, after getClient(true) threw or the first call
\* failed with e: open the grant prompt, or rethrow to handleSendMessage.
generateImageCatch(c, rec, e) ==
  IF needsGrant(e)
  THEN Suspend(c, [rec EXCEPT !.pc = "prompt", !.prompts = @ + 1],
               messages, isLoading)
  ELSE SettleError(c, rec, messages, e)

\* await window.aistudio.hasSelectedApiKey() answers, inside getClient(true).
HasSelectedApiKeyReturns(c) ==
  /\ cycles[c].pc \in {"key1", "key2"}
  /\ IF keySelected
     THEN Suspend(c, [cycles[c] EXCEPT
                        !.pc = IF @ = "key1" THEN "gen1" ELSE "gen2",
                        !.calls = Append(@,
                          IF cycles[c].pc = "key1"
                          THEN generateImageCall(cycles[c].text, cycles[c].size)
                          ELSE generateImageRetryCall(cycles[c].text, cycles[c].size))],
                  messages, isLoading)
     ELSE \* getClient(true) throws
          LET rec == [cycles[c] EXCEPT !.notGranted = @ + 1]
              e   == [message |-> API_KEY_REQUIRED]
          IN IF cycles[c].pc = "key1"
             THEN generateImageCatch(c, rec, e)
             ELSE SettleError(c, rec, messages, e)
  /\ UNCHANGED <<Others, keySelected>>

\* await window.aistudio.openSelectKey() resolves: the user selected a key
\* or left the prompt; the retry's getClient(true) then asks the host again.
OpenSelectKeyReturns(c, selected) ==
  /\ cycles[c].pc = "prompt"
  /\ keySelected' = (keySelected \/ selected)
  /\ Suspend(c, [cycles[c] EXCEPT !.pc = "key2", !.creds = @ + 1],
             messages, isLoading)
  /\ UNCHANGED Others

\* generateContent of generateImage or editImage returns; handleSendMessage
\* reads the image and the caption out of the response.
ImageResponseReturns(c, result) ==
  /\ cycles[c].pc \in {"gen1", "gen2", "edit_call"}
  /\ IF result.candidates # None /\ result.candidates[1] = <<>>
     THEN \* result.candidates[0] is undefined
          SettleError(c, cycles[c], messages, [message |-> TypeErrorMsg])
     ELSE LET parts   == IF result.candidates = None THEN <<>>
                         ELSE result.candidates[1][1].parts
              imgUrl  == imgUrlOf(parts, "")
              caption == captionOf(parts, <<>>)
          IN SettleSuccess(c, cycles[c],
               updateLastMessage(messages,
                  IF caption # <<>> THEN caption ELSE defaultCaption(cycles[c].mode),
                  FALSE, imgUrl, None))
  /\ UNCHANGED <<Others, keySelected>>

\* generateContent of analyzeMedia or transcribeAudio returns.
TextResponseReturns(c, result) ==
  /\ cycles[c].pc = "analyze_call"
  /\ SettleSuccess(c, cycles[c],
       updateLastMessage(messages,
          IF result.text # <<>> THEN result.text ELSE AnalysisComplete,
          FALSE, "", None))
  /\ UNCHANGED <<Others, keySelected>>

\* generateContent throws a backend error.
GenerateContentThrows(c, e) ==
  /\ cycles[c].pc \in {"gen1", "gen2", "edit_call", "analyze_call"}
  /\ IF cycles[c].pc = "gen1"
     THEN generateImageCatch(c, cycles[c], e)
     ELSE SettleError(c, cycles[c], messages, e)
  /\ UNCHANGED <<Others, keySelected>>

(* ------------------------------ the UI --------------------------------- *)
\* The record of a settled cycle is what the cycle left behind; it is kept
\* until the user's next action on the settings and then forgotten.
Forget == [c \in Cycles |-> IF InFlight(c) THEN cycles[c] ELSE IdleCycle]

\* ModeSelector: onModeChange={(m) => { setMode(m); setMessages([]); }}
onModeChange(m) ==
  /\ mode' = m
  /\ messages' = <<>>
  /\ cycles' = [c \in Cycles |->
                  IF InFlight(c) THEN [cycles[c] EXCEPT !.cleared = TRUE]
                  ELSE IdleCycle]
  /\ UNCHANGED <<isLoading, chatConfig, imageSize, aistudio, keySelected>>

\* onConfigChange={(newConf) => setChatConfig(prev => ({ ...prev, ...newConf }))}
onConfigChange(newConf) ==
  /\ chatConfig' = [k \in DOMAIN chatConfig |->
                      IF k \in DOMAIN newConf THEN newConf[k] ELSE chatConfig[k]]
  /\ cycles' = Forget
  /\ UNCHANGED <<mode, messages, isLoading, imageSize, aistudio, keySelected>>

\* Mutant: the Thinking button leaves the other two flags as they are.
ToggleThinkingKeepsOthers ==
  onConfigChange([enableThinking |-> ~chatConfig.enableThinking])

\* The three buttons of the tools toggle bar.
ToggleThinking ==
  onConfigChange([enableThinking |-> ~chatConfig.enableThinking,
                  enableFast |-> FALSE, enableSearch |-> FALSE])
ToggleSearch ==
  onConfigChange([enableSearch |-> ~chatConfig.enableSearch,
                  enableThinking |-> FALSE, enableFast |-> FALSE])
ToggleFast ==
  onConfigChange([enableFast |-> ~chatConfig.enableFast,
                  enableThinking |-> FALSE, enableSearch |-> FALSE])

\* The resolution selector, rendered in generate_image mode only.
setImageSize(size) ==
  /\ mode = "generate_image"
  /\ imageSize' = size
  /\ cycles' = Forget
  /\ UNCHANGED <<mode, messages, isLoading, chatConfig, aistudio, keySelected>>

(* ---------------------------- specification ---------------------------- *)
\* What the backend and the host do to the cycle c.
CycleStep(c) ==
  \/ SendMessageStreamReturns(c)
  \/ \E content \in Chunks : StreamNext(c, content)
  \/ StreamDone(c)
  \/ \E e \in BackendErrors : StreamThrows(c, e)
  \/ HasSelectedApiKeyReturns(c)
  \/ \E selected \in BOOLEAN : OpenSelectKeyReturns(c, selected)
  \/ \E result \in ImageResponses : ImageResponseReturns(c, result)
  \/ \E result \in TextResponses : TextResponseReturns(c, result)
  \/ \E e \in BackendErrors : GenerateContentThrows(c, e)

\* The user opens a conversation with any input, or sends a follow-up.
Submit ==
  \E text \in Texts, attachments \in AttachmentLists :
     messages = <<>> /\ handleSend(text, attachments)
FollowUp ==
  \E text \in FollowUpTexts, attachments \in FollowUpAttachmentLists :
     messages # <<>> /\ handleSend(text, attachments)

\* The backend and the host answer.
Backend == \E c \in Cycles : CycleStep(c)

\* The user changes a setting.
ModeSwitch == \E m \in AppModes : onModeChange(m)
Toggles == ToggleThinking \/ ToggleSearch \/ ToggleFast
SizeChange == \E size \in ImageSizes : setImageSize(size)

\* Conversations of up to MaxMsgs messages; the user leaves the settings
\* alone while a request is running.
Next ==
  \/ Submit
  \/ FollowUp
  \/ Backend
  \/ ~isLoading /\ ModeSwitch
  \/ ~isLoading /\ Toggles
  \/ ~isLoading /\ SizeChange

Spec == Init /\ [][Next]_vars

\* Conversations of one exchange; the user switches the mode at any time,
\* also while a request is running.
NextSwitch ==
  \/ Submit
  \/ Backend
  \/ ModeSwitch
  \/ ~isLoading /\ Toggles
  \/ ~isLoading /\ SizeChange

SwitchSpec == Init /\ [][NextSwitch]_vars

\* The backend and the host answer every call, and every stream ends.
LiveSpec == SwitchSpec /\ \A c \in Cycles : WF_vars(CycleStep(c))

\* Every combination of the three chat flags, as streamChatResponse may be
\* handed it.
InitAllFlags ==
  /\ mode = "chat"
  /\ messages = <<>>
  /\ isLoading = FALSE
  /\ chatConfig \in [enableThinking : BOOLEAN, enableSearch : BOOLEAN, enableFast : BOOLEAN]
  /\ imageSize = "1K"
  /\ aistudio \in BOOLEAN
  /\ keySelected = FALSE
  /\ cycles = [c \in Cycles |-> IdleCycle]

AllFlagsSpec == InitAllFlags /\ [][Next]_vars

\* Conversations of one exchange; the user clicks the toggle buttons at any
\* time, also while a request is running (the buttons are never disabled).
NextToggle ==
  \/ Submit
  \/ Backend
  \/ Toggles
  \/ ~isLoading /\ ModeSwitch
  \/ ~isLoading /\ SizeChange

ToggleSpec == Init /\ [][NextToggle]_vars

(* ------------------------------ claims --------------------------------- *)
Settled(c) == cycles[c].pc = "settled"
LastMsg == messages[Len(messages)]
\* The cycle's placeholder is still in the store: no mode switch cleared it.
Kept(c) == ~cycles[c].cleared /\ Len(messages) > 0
InProgress == {i \in 1..Len(messages) : messages[i].isThinking}

RECURSIVE ConcatTexts(_)
ConcatTexts(chunks) ==
  IF chunks = <<>> THEN <<>> ELSE Head(chunks).text \o ConcatTexts(Tail(chunks))

\* C1: every dispatched cycle eventually settles with the busy flag cleared,
\* whether it ends in success or in error, given that the backend and the
\* host answer and the stream ends; and whenever the flag is clear a
\* submission with text is accepted.
C1_EverySettles ==
  /\ \A c \in Cycles : InFlight(c) ~> (Settled(c) /\ ~isLoading)
  /\ isLoading ~> ~isLoading
  /\ [](~isLoading => ~sendRejected(TxtHi, <<>>))

\* C1 witness: a cycle that failed in the middle of its stream has settled
\* and the busy flag is clear.
C1_Witness ==
  \E c \in Cycles :
     /\ Settled(c) /\ cycles[c].outcome = "error"
     /\ Len(cycles[c].consumed) >= 1
     /\ ~isLoading

\* C2: at most one cycle is in flight, the busy flag is set exactly while one
\* is, and while it is set no step appends a message to the store, starts a
\* cycle or issues a backend call for a cycle that is not in flight.
C2_BusyRejects ==
  /\ [](Cardinality({c \in Cycles : InFlight(c)}) <= 1)
  /\ [](isLoading <=> \E c \in Cycles : InFlight(c))
  /\ [][isLoading =>
          /\ Len(messages') <= Len(messages)
          /\ \A c \in Cycles :
               ~InFlight(c) => cycles'[c] \in {cycles[c], IdleCycle}]_vars

\* C2 witness: a cycle is in flight with its two messages in the store, and
\* a send with text is rejected.
C2_Witness ==
  /\ isLoading
  /\ \E c \in Cycles : InFlight(c)
  /\ Len(messages) = 2
  /\ sendRejected(TxtHi, <<>>)

\* C3 as stated: while a cycle is in flight exactly one message is marked
\* in-progress, and it is the last message, the model placeholder.
C3_Original ==
  \A c \in Cycles :
     InFlight(c) =>
       /\ Len(messages) > 0
       /\ Cardinality(InProgress) = 1
       /\ LastMsg.role = "model"
       /\ LastMsg.isThinking

\* C3 amended: while a cycle is in flight and no mode switch cleared the
\* store, the last message is the cycle's placeholder (role model, after the
\* user message); no user message is marked in-progress; the placeholder is
\* marked in-progress while the backend is awaited in generate_image,
\* edit_image and analyze, and in chat only if enableThinking was set at
\* submission and until the first chunk with text is applied.
C3_Placeholder ==
  \A c \in Cycles :
     (InFlight(c) /\ ~cycles[c].cleared) =>
       /\ Len(messages) >= 2
       /\ LastMsg.role = "model"
       /\ messages[Len(messages) - 1].role = "user"
       /\ \A i \in InProgress : messages[i].role = "model"
       /\ LastMsg.isThinking =
            IF cycles[c].mode = "chat"
            THEN /\ cycles[c].config.enableThinking
                 /\ \A i \in 1..Len(cycles[c].consumed) :
                      cycles[c].consumed[i].text = <<>>
            ELSE TRUE

\* C3 witness: a chat cycle submitted with enableThinking is in flight, a
\* chunk with text was applied, and the placeholder is no longer in-progress.
C3_Witness ==
  \E c \in Cycles :
     /\ InFlight(c) /\ Kept(c)
     /\ cycles[c].mode = "chat" /\ cycles[c].config.enableThinking
     /\ cycles[c].fullText # <<>>
     /\ ~LastMsg.isThinking

\* C4 as stated: after the k-th chunk is consumed the placeholder's text is
\* the k-th chunk's text (here for the streams whose chunks all carry text).
C4_Original ==
  \A c \in Cycles :
     ( /\ cycles[c].pc = "streaming" /\ Kept(c)
       /\ Len(cycles[c].consumed) >= 1
       /\ \A i \in 1..Len(cycles[c].consumed) : cycles[c].consumed[i].text # <<>> ) =>
       LastMsg.text = cycles[c].consumed[Len(cycles[c].consumed)].text

\* C4 amended: after the k-th chunk is consumed the placeholder's text is the
\* concatenation of the texts of chunks 1..k in emission order, and when the
\* stream has ended it is the concatenation of all the chunks' texts.
C4_Concatenation ==
  \A c \in Cycles :
     ( /\ cycles[c].mode = "chat" /\ Kept(c)
       /\ \/ cycles[c].pc \in {"stream_call", "streaming"}
          \/ Settled(c) /\ cycles[c].outcome = "success" ) =>
       LastMsg.text = ConcatTexts(cycles[c].consumed)

\* C4 witness: a stream of the chunks "a" and "b" has ended and the
\* placeholder reads "ab".
C4_Witness ==
  \E c \in Cycles :
     /\ Settled(c) /\ cycles[c].outcome = "success" /\ Kept(c)
     /\ Len(cycles[c].consumed) = 2
     /\ cycles[c].consumed[1].text = <<"a">>
     /\ cycles[c].consumed[2].text = <<"b">>
     /\ LastMsg.text = <<"a", "b">>

\* C5 as stated: when a cycle completes normally the placeholder's
\* in-progress marker is false in the settled state.
C5_MarkerCleared ==
  \A c \in Cycles :
     (Settled(c) /\ cycles[c].outcome = "success" /\ Kept(c)) =>
       ~LastMsg.isThinking

\* C6: a cycle that fails settles with the placeholder reading "Error: "
\* followed by the failure's message, or by the generic message when the
\* failure has none, and not in-progress.
C6_ErrorSettles ==
  \A c \in Cycles :
     (Settled(c) /\ cycles[c].outcome = "error" /\ ~cycles[c].cleared) =>
       /\ cycles[c].error # None
       /\ Len(messages) >= 2
       /\ LastMsg.role = "model"
       /\ LastMsg.text =
            IF cycles[c].error[1].message = <<>>
            THEN ErrorPrefix \o SomethingWentWrong
            ELSE ErrorPrefix \o cycles[c].error[1].message
       /\ ~LastMsg.isThinking

\* C6 witness: a stream failed after a chunk with an error that has no
\* message, and the placeholder reads "Error: Something went wrong.".
C6_Witness ==
  \E c \in Cycles :
     /\ Settled(c) /\ cycles[c].outcome = "error" /\ Kept(c)
     /\ Len(cycles[c].consumed) >= 1
     /\ cycles[c].error = Some([message |-> <<>>])
     /\ LastMsg.text = ErrorPrefix \o SomethingWentWrong

\* The submission of cycle c fails its mode's precondition.
LacksAttachment(c) ==
  \/ /\ cycles[c].mode = "edit_image"
     /\ \/ cycles[c].attachments = <<>>
        \/ cycles[c].attachments[1].type # "image"
  \/ /\ cycles[c].mode = "analyze"
     /\ cycles[c].attachments = <<>>

\* C7: an edit_image submission whose attachments do not start with an image,
\* or an analyze submission without attachments, is never in flight: it
\* settles to error with no credential resolution, no prompt and no backend
\* call, and for edit_image the error and the placeholder contain
\* "attach an image".
C7_Precondition ==
  \A c \in Cycles :
     (cycles[c].pc # "idle" /\ LacksAttachment(c)) =>
       /\ Settled(c) /\ cycles[c].outcome = "error"
       /\ cycles[c].creds = 0 /\ cycles[c].prompts = 0 /\ cycles[c].calls = <<>>
       /\ cycles[c].mode = "edit_image" =>
            /\ includes(cycles[c].error[1].message,
                        <<"a","t","t","a","c","h"," ","a","n"," ","i","m","a","g","e">>)
            /\ Kept(c) =>
                 includes(LastMsg.text,
                          <<"a","t","t","a","c","h"," ","a","n"," ","i","m","a","g","e">>)

\* C7 witness: an edit_image submission with an audio attachment has settled
\* to error.
C7_Witness ==
  \E c \in Cycles :
     /\ Settled(c) /\ cycles[c].mode = "edit_image"
     /\ cycles[c].attachments = <<Aud>>
     /\ cycles[c].outcome = "error"
     /\ LastMsg.text = ErrorPrefix \o AttachImageMsg

\* C8: for each of the 8 flag combinations the chat call carries the plan of
\* the first match in the order enableFast, enableThinking, enableSearch,
\* none, and a chat cycle issues exactly one call.
C8_ChatRouting ==
  \A c \in Cycles :
     (cycles[c].mode = "chat" /\ cycles[c].pc # "idle") =>
       LET f    == cycles[c].config
           call == cycles[c].calls[1]
       IN /\ Len(cycles[c].calls) = 1
          /\ call.op = "streamChatResponse"
          /\ f.enableFast =>
               /\ call.model = "gemini-flash-lite-latest"
               /\ call.config = [thinkingConfig |-> None, tools |-> None]
          /\ (~f.enableFast /\ f.enableThinking) =>
               /\ call.model = "gemini-3-pro-preview"
               /\ call.config = [thinkingConfig |-> Some(32768), tools |-> None]
          /\ (~f.enableFast /\ ~f.enableThinking /\ f.enableSearch) =>
               /\ call.model = "gemini-2.5-flash"
               /\ call.config = [thinkingConfig |-> None, tools |-> Some("googleSearch")]
          /\ (~f.enableFast /\ ~f.enableThinking /\ ~f.enableSearch) =>
               /\ call.model = "gemini-3-pro-preview"
               /\ call.config = [thinkingConfig |-> None, tools |-> None]

\* C8 witness: a chat call was issued with all three flags set, on the
\* fast-tier model.
C8_Witness ==
  \E c \in Cycles :
     /\ cycles[c].mode = "chat" /\ cycles[c].calls # <<>>
     /\ cycles[c].config.enableFast /\ cycles[c].config.enableThinking
     /\ cycles[c].config.enableSearch
     /\ cycles[c].calls[1].model = "gemini-flash-lite-latest"

\* C9: an analyze cycle with an attachment issues exactly one call:
\* transcribeAudio on the flash-tier model when the first attachment is audio
\* and the text contains "transcribe" in any letter case (of the texts
\* submitted, this is "Please TRANSCRIBE"), otherwise analyzeMedia, on the
\* flash-tier model for audio and on the reasoning-tier model for any other
\* kind.
C9_AnalyzeRouting ==
  \A c \in Cycles :
     (cycles[c].mode = "analyze" /\ cycles[c].pc # "idle"
        /\ cycles[c].attachments # <<>>) =>
       LET audio == cycles[c].attachments[1].type = "audio"
           call  == cycles[c].calls[1]
       IN /\ Len(cycles[c].calls) = 1
          /\ IF audio /\ cycles[c].text = TxtTranscribe
             THEN call.op = "transcribeAudio" /\ call.model = "gemini-2.5-flash"
             ELSE /\ call.op = "analyzeMedia"
                  /\ call.model = IF audio THEN "gemini-2.5-flash"
                                  ELSE "gemini-3-pro-preview"

\* C9 witness: an analyze cycle with an audio attachment and the text
\* "Please TRANSCRIBE" has called transcribeAudio.
C9_Witness ==
  \E c \in Cycles :
     /\ cycles[c].mode = "analyze" /\ cycles[c].attachments = <<Aud>>
     /\ cycles[c].text = TxtTranscribe
     /\ cycles[c].calls # <<>>
     /\ cycles[c].calls[1].op = "transcribeAudio"

\* C10 as stated: whenever credential resolution fails with NotGranted the
\* grant prompt is opened and credential resolution is retried exactly once.
C10_Original ==
  \A c \in Cycles :
     (Settled(c) /\ cycles[c].mode = "generate_image"
        /\ cycles[c].notGranted >= 1) =>
       cycles[c].prompts = 1 /\ cycles[c].creds = 2

\* C10 amended: when credential resolution fails with NotGranted and the host
\* capability (window.aistudio) exists, the prompt is opened and the call
\* retried exactly once, and a failure of the retry settles to error; when
\* the host capability is missing the failure settles to error with no
\* prompt and no retry.  The prompt is opened at most once and only after a
\* NotGranted failure (never after a backend error), and the call is
\* attempted at most twice.
C10_GrantRetry ==
  \A c \in Cycles :
     (cycles[c].mode = "generate_image" /\ cycles[c].pc # "idle") =>
       /\ cycles[c].prompts <= 1
       /\ Len(cycles[c].calls) <= 2
       /\ cycles[c].prompts >= 1 => cycles[c].notGranted >= 1
       /\ (Settled(c) /\ cycles[c].notGranted >= 1) =>
            IF aistudio
            THEN cycles[c].prompts = 1 /\ cycles[c].creds = 2
            ELSE /\ cycles[c].prompts = 0 /\ cycles[c].creds = 1
                 /\ cycles[c].outcome = "error"
       /\ cycles[c].notGranted = 2 =>
            /\ Settled(c) /\ cycles[c].outcome = "error"
            /\ cycles[c].error = Some([message |-> API_KEY_REQUIRED])
            /\ cycles[c].calls = <<>>

\* C10 witness: the key was not granted in the prompt either, and the cycle
\* settled to error after one prompt and two credential resolutions.
C10_Witness ==
  \E c \in Cycles :
     /\ Settled(c) /\ cycles[c].mode = "generate_image"
     /\ cycles[c].notGranted = 2 /\ cycles[c].prompts = 1 /\ cycles[c].creds = 2
     /\ cycles[c].outcome = "error"
     /\ LastMsg.text = ErrorPrefix \o API_KEY_REQUIRED

\* The number of chat flags that are set.
FlagsSet(config) == Cardinality({k \in DOMAIN config : config[k]})

\* C11: starting from all flags false, at most one of enableThinking,
\* enableSearch and enableFast is set in every state, and every step that
\* changes the configuration (a click on a toggle button) flips one flag and
\* leaves the other two false.
C11_ToggleExclusive ==
  /\ [](FlagsSet(chatConfig) <= 1)
  /\ [][chatConfig' # chatConfig =>
          \E k \in DOMAIN chatConfig :
             /\ chatConfig'[k] = ~chatConfig[k]
             /\ \A j \in DOMAIN chatConfig \ {k} : ~chatConfig'[j]]_vars

\* C11 witness: a request submitted with enableThinking is running, and the
\* user has since clicked Fast: enableFast is set and enableThinking is not.
C11_Witness ==
  \E c \in Cycles :
     /\ InFlight(c) /\ cycles[c].config.enableThinking
     /\ chatConfig.enableFast /\ ~chatConfig.enableThinking

\* The source list carried by the last source-bearing chunk, if any.
RECURSIVE LastSources(_)
LastSources(chunks) ==
  IF chunks = <<>> THEN None
  ELSE IF chunks[Len(chunks)].sources # None THEN chunks[Len(chunks)].sources
  ELSE LastSources(SubSeq(chunks, 1, Len(chunks) - 1))

\* C12 as stated: while the stream of a chat cycle is consumed, and when the
\* cycle has settled normally, the placeholder's source list is the list
\* carried by the last source-bearing chunk consumed, whatever text that
\* chunk carries.
C12_SourcesOfLastChunk ==
  \A c \in Cycles :
     ( /\ cycles[c].mode = "chat" /\ Kept(c)
       /\ \/ cycles[c].pc = "streaming"
          \/ Settled(c) /\ cycles[c].outcome = "success" ) =>
       LastMsg.sources = LastSources(cycles[c].consumed)

\* A step of the store: a mode switch cleared it.
StoreCleared == messages' = <<>> /\ \E m \in AppModes : onModeChange(m)
\* A step of the store: messages were appended at its end, the others kept.
StoreAppended ==
  /\ Len(messages') > Len(messages)
  /\ SubSeq(messages', 1, Len(messages)) = messages
\* A step of the store: the message i alone was changed, and is still there.
StoreMutatedAt(i) ==
  /\ Len(messages') = Len(messages)
  /\ i \in 1..Len(messages)
  /\ \A j \in 1..Len(messages) : j # i => messages'[j] = messages[j]
  /\ messages'[i].role = messages[i].role

\* C13 as stated: apart from the clearing by a mode switch, a step that
\* changes the store appends at its end or mutates the single message that is
\* marked in-progress.
C13_Original ==
  [][messages' # messages =>
       \/ StoreCleared
       \/ StoreAppended
       \/ \E i \in InProgress : InProgress = {i} /\ StoreMutatedAt(i)]_vars

\* C13 amended: apart from the clearing by a mode switch, a step that changes
\* the store either appends a user message and a model placeholder at its
\* end, or mutates the last message alone, which has role model and is the
\* placeholder of the cycle in flight, whether or not it is marked
\* in-progress.  So no message is removed or reordered, no user message is
\* mutated, and no model message is mutated once its cycle has settled.
C13_Frame ==
  [][messages' # messages =>
       \/ StoreCleared
       \/ /\ StoreAppended
          /\ Len(messages') = Len(messages) + 2
          /\ messages'[Len(messages) + 1].role = "user"
          /\ messages'[Len(messages) + 2].role = "model"
          /\ ~isLoading
       \/ /\ StoreMutatedAt(Len(messages))
          /\ messages[Len(messages)].role = "model"
          /\ isLoading
          /\ \E c \in Cycles : InFlight(c) /\ ~cycles[c].cleared]_vars

\* C13 witness: in the second exchange of a conversation a chunk was applied
\* to a placeholder that is not marked in-progress, with the messages of the
\* first exchange still in the store.
C13_Witness ==
  \E c \in Cycles :
     /\ cycles[c].pc = "streaming" /\ Kept(c)
     /\ Len(messages) = 4
     /\ cycles[c].fullText # <<>>
     /\ LastMsg.text = cycles[c].fullText
     /\ ~LastMsg.isThinking
     /\ messages[1].role = "user" /\ messages[2].role = "model"
     /\ messages[2].text # <<>>

\* C14 as stated: every call issued by generateImage, the first attempt as
\* well as the retry after the grant prompt, is on the image-tier model and
\* carries the resolution tier chosen at submission and the aspect ratio 1:1.
C14_BothParams ==
  \A c \in Cycles :
     cycles[c].mode = "generate_image" =>
       \A i \in 1..Len(cycles[c].calls) :
          /\ cycles[c].calls[i].op = "generateImage"
          /\ cycles[c].calls[i].model = "gemini-3-pro-image-preview"
          /\ cycles[c].calls[i].config.imageSize = cycles[c].size
          /\ cycles[c].calls[i].config.aspectRatio = Some("1:1")

\* The operations a cycle submitted in mode m may call.
OpsOfMode(m) ==
  CASE m = "chat" -> {"streamChatResponse"}
    [] m = "generate_image" -> {"generateImage"}
    [] m = "edit_image" -> {"editImage"}
    [] m = "analyze" -> {"analyzeMedia", "transcribeAudio"}

\* The cycle c is in flight and a mode switch cleared the store under it.
Orphaned(c) == InFlight(c) /\ cycles[c].cleared

\* C15: when the mode is switched while a cycle is in flight the store is
\* emptied; as long as the cycle runs, and in the step that settles it, the
\* store stays empty (no chunk, result or error adds or modifies a message)
\* and the busy flag stays set; the cycle calls only the operations of the
\* mode it was submitted in; and it settles with the busy flag cleared.
C15_SwitchInFlight ==
  /\ [](\A c \in Cycles : Orphaned(c) => messages = <<>> /\ isLoading)
  /\ [][\A c \in Cycles :
          /\ (InFlight(c) /\ (\E m \in AppModes : onModeChange(m))) =>
               messages' = <<>> /\ cycles'[c].cleared /\ cycles'[c].pc = cycles[c].pc
          /\ Orphaned(c) =>
               /\ messages' = <<>>
               /\ cycles'[c].mode = cycles[c].mode
               /\ cycles'[c].pc = "settled" => ~isLoading']_vars
  /\ [](\A c \in Cycles :
          cycles[c].cleared =>
            \A i \in 1..Len(cycles[c].calls) :
               cycles[c].calls[i].op \in OpsOfMode(cycles[c].mode))
  /\ \A c \in Cycles : Orphaned(c) ~> (Settled(c) /\ ~isLoading)

\* C15 witness: a chat cycle whose store was cleared by a switch to analyze
\* has consumed a chunk with text and has settled; the store is empty and
\* the busy flag is clear.
C15_Witness ==
  \E c \in Cycles :
     /\ Settled(c) /\ cycles[c].cleared
     /\ cycles[c].mode = "chat" /\ mode = "analyze"
     /\ cycles[c].fullText # <<>>
     /\ messages = <<>> /\ ~isLoading

\* Role and text of the first n messages of the store, in store order.
RoleText(msgs, n) == [i \in 1..n |-> [role |-> msgs[i].role, text |-> msgs[i].text]]

\* C16: the step that submits a chat request passes as history the role and
\* text of every message the store held before the step, in store order,
\* and as the new message the attachments followed by the new text; the
\* store grows by the user message and the placeholder, which are not in the
\* history.  While the request runs, the history is the role and text of
\* all messages of the store but the last two.
C16_History ==
  /\ [][\A c \in Cycles :
          (~InFlight(c) /\ cycles'[c].pc = "stream_call") =>
            LET call == cycles'[c].calls[1]
                atts == cycles'[c].attachments
                text == cycles'[c].text
            IN /\ call.history = RoleText(messages, Len(messages))
               /\ Len(messages') = Len(messages) + 2
               /\ SubSeq(messages', 1, Len(messages)) = messages
               /\ call.parts =
                    [i \in 1..Len(atts) |-> [inlineData |-> Some(atts[i]), text |-> None]]
                    \o (IF text # <<>>
                        THEN <<[inlineData |-> None, text |-> Some(text)]>>
                        ELSE <<>>)]_vars
  /\ [](\A c \in Cycles :
          (cycles[c].mode = "chat" /\ InFlight(c) /\ ~cycles[c].cleared) =>
            /\ Len(messages) >= 2
            /\ cycles[c].calls[1].history = RoleText(messages, Len(messages) - 2))

\* C16 witness: a chat request is submitted after an exchange that ended in
\* "Error: quota"; its history holds the earlier user message and that error
\* message, and its new message holds the new text alone.
C16_Witness ==
  \E c \in Cycles :
     /\ cycles[c].pc = "stream_call" /\ Kept(c)
     /\ Len(messages) = 4
     /\ Len(cycles[c].calls[1].history) = 2
     /\ cycles[c].calls[1].history[1].role = "user"
     /\ cycles[c].calls[1].history[2] =
          [role |-> "model", text |-> ErrorPrefix \o QuotaMsg]
     /\ cycles[c].calls[1].parts = <<[inlineData |-> None, text |-> Some(TxtHi)]>>

====
